---- MODULE Spec2Model ----
(***************************************************************************)
(* A model of the caddy mirror handler (src/mirror.go): the IncomingFile   *)
(* temp-file abstraction (NewIncomingFile / Write / Complete / Abort /     *)
(* Close), the responseWriterWrapper (WriteHeader / Write) and             *)
(* Mirror.ServeHTTP, over a small file system.                             *)
(***************************************************************************)
EXTENDS Integers, Sequences, FiniteSets, TLC

(***************************************************************************)
(* Bounds of the model.                                                    *)
(***************************************************************************)
\* longest response body a handler produces, in bytes
MaxBody == 3
\* longest slice handed to one Write call
MaxChunk == 2
\* number of calls made on one IncomingFile in the file-level specification
MaxCalls == 4

(***************************************************************************)
(* Program constants.                                                      *)
(***************************************************************************)
\* http.StatusOK, the only status WriteHeader treats as a success
StatusOK == 200
\* a status that is not http.StatusOK
StatusNotFound == 404
\* permission bits of a file made by os.CreateTemp (0o600)
TempPerm == 384
\* permission bits of a file that is already at a target path (0o644)
OldPerm == 420

(***************************************************************************)
(* Errors.  A Go error is a sequence of causes; nil is the empty sequence  *)
(* and errors.Join concatenates, dropping nils.                            *)
(***************************************************************************)
Nil == <<>>

Join(a, b, c) == a \o b \o c

Is(err, cause) == \E i \in 1..Len(err) : err[i] = cause

ErrClosed == <<"ErrClosed">>
ErrNotExist == <<"ErrNotExist">>
\* the errors of the underlying steps when they fail
ErrMkdir == <<"mkdir: EIO">>
ErrCreate == <<"createtemp: EIO">>
ErrStat == <<"stat: EIO">>
ErrChmod == <<"chmod: EIO">>
ErrWrite == <<"write: EIO">>
ErrSync == <<"sync: EIO">>
ErrCloseIO == <<"close: EIO">>
ErrRename == <<"rename: EIO">>
ErrRemove == <<"remove: EIO">>
ErrLstat == <<"lstat: EIO">>
ErrPipe == <<"EPIPE">>
ErrShortWrite == <<"ErrShortWrite">>
ErrIsDir == <<"ErrIsDir">>
ErrNotRegular == <<"ErrNotRegular">>
ErrPermission == <<"ErrPermission">>
ErrAlreadyAborted == <<"file already aborted">>
ErrAlreadyCompleted == <<"file already completed">>

(***************************************************************************)
(* The file system: path -> entry.  Paths of the one mirrored resource.    *)
(***************************************************************************)
Requests == {1, 2}

Target == "a.txt"
Suffix == ".etag"
Sidecar == "a.txt.etag"

\* the name os.CreateTemp picks in the target's directory: unique per call
TempName(path, r) ==
    IF path = Target
    THEN (IF r = 1 THEN "._tmp_a.txt.1" ELSE "._tmp_a.txt.2")
    ELSE (IF r = 1 THEN "._tmp_a.txt.etag.1" ELSE "._tmp_a.txt.etag.2")

Temps == {TempName(p, r) : p \in {Target, Sidecar}, r \in Requests}
Paths == {Target, Sidecar} \cup Temps

Absent == [kind |-> "none", data |-> <<>>, perm |-> 0]
Regular(d, p) == [kind |-> "file", data |-> d, perm |-> p]
Directory == [kind |-> "dir", data |-> <<>>, perm |-> OldPerm]
Irregular == [kind |-> "other", data |-> <<>>, perm |-> OldPerm]

\* content of a file that exists before any request
OldData == <<7>>

\* fault inputs of one call: which of the underlying steps fail
Faults == [sync : BOOLEAN, close : BOOLEAN, rename : BOOLEAN, remove : BOOLEAN]
NoFault == [sync |-> FALSE, close |-> FALSE, rename |-> FALSE, remove |-> FALSE]

(***************************************************************************)
(* IncomingFile.  open is the state of the embedded *os.File.              *)
(***************************************************************************)
NilFile == [name |-> "", target |-> "", open |-> FALSE, completed |-> FALSE,
            done |-> FALSE, closed |-> FALSE, aborted |-> FALSE]

IncomingFile(temp, path) ==
    [name |-> temp, target |-> path, open |-> TRUE, completed |-> FALSE,
     done |-> FALSE, closed |-> FALSE, aborted |-> FALSE]

\* os.File.Sync
FileSync(f, fail) ==
    IF ~f.open THEN ErrClosed ELSE IF fail THEN ErrSync ELSE Nil

\* os.File.Close: the descriptor is released whether or not an error is reported
FileClose(f, fail) ==
    IF ~f.open THEN ErrClosed ELSE IF fail THEN ErrCloseIO ELSE Nil

\* os.Remove
Remove(fsys, name, fail) ==
    IF fail THEN [fs |-> fsys, err |-> ErrRemove]
    ELSE IF fsys[name].kind = "none" THEN [fs |-> fsys, err |-> ErrNotExist]
    ELSE [fs |-> [fsys EXCEPT ![name] = Absent], err |-> Nil]

\* os.Rename: one atomic step that replaces the entry at newpath
Rename(fsys, oldpath, newpath, fail) ==
    IF fail THEN [fs |-> fsys, err |-> ErrRename]
    ELSE IF fsys[oldpath].kind = "none" THEN [fs |-> fsys, err |-> ErrNotExist]
    ELSE IF fsys[newpath].kind = "dir" THEN [fs |-> fsys, err |-> ErrIsDir]
    ELSE [fs |-> [fsys EXCEPT ![newpath] = fsys[oldpath], ![oldpath] = Absent],
          err |-> Nil]

\* os.File.Write of b: n bytes reach the file; n < Len(b) comes with
\* io.ErrShortWrite (kind "short") or with the underlying error (kind "eio")
FileWrite(f, fsys, b, n, kind) ==
    IF ~f.open THEN [fs |-> fsys, n |-> 0, err |-> ErrClosed]
    ELSE [fs |-> [fsys EXCEPT ![f.name].data = @ \o SubSeq(b, 1, n)],
          n |-> n,
          err |-> IF kind = "eio" THEN ErrWrite
                  ELSE IF n # Len(b) THEN ErrShortWrite ELSE Nil]

\* the (n, kind) outcomes os.File.Write can have on b
WriteOutcomes(b) ==
    {<<Len(b), "ok">>} \cup
    {<<n, k>> : n \in 0..(Len(b) - 1), k \in {"short", "eio"}}

\* Abort that closes and removes again on every call: a mutant of Abort
AbortAgain(f, fsys, io) ==
    IF f.completed
    THEN [f |-> f, fs |-> fsys, err |-> ErrAlreadyCompleted, ops |-> <<>>]
    ELSE LET closeErr == FileClose(f, io.close)
             rm == Remove(fsys, f.name, io.remove)
         IN [f |-> [f EXCEPT !.aborted = TRUE, !.open = FALSE,
                             !.closed = TRUE, !.done = TRUE],
             fs |-> rm.fs,
             err |-> Join(rm.err, closeErr, Nil),
             ops |-> <<"close", "remove">>]

\* Abort without the completed check: a mutant of Abort
AbortCompleted(f, fsys, io) ==
    IF f.done
    THEN [f |-> f, fs |-> fsys, err |-> Nil, ops |-> <<>>]
    ELSE LET closeErr == FileClose(f, io.close)
             rm == Remove(fsys, f.name, io.remove)
         IN [f |-> [f EXCEPT !.aborted = TRUE, !.open = FALSE,
                             !.closed = TRUE, !.done = TRUE],
             fs |-> rm.fs,
             err |-> Join(rm.err, closeErr, Nil),
             ops |-> <<"close", "remove">>]

\* IncomingFile.Abort
Abort(f, fsys, io) ==
    IF f.completed
    THEN [f |-> f, fs |-> fsys, err |-> ErrAlreadyCompleted, ops |-> <<>>]
    ELSE IF f.done
    THEN [f |-> f, fs |-> fsys, err |-> Nil, ops |-> <<>>]
    ELSE LET closeErr == FileClose(f, io.close)
             rm == Remove(fsys, f.name, io.remove)
         IN [f |-> [f EXCEPT !.aborted = TRUE, !.open = FALSE,
                             !.closed = TRUE, !.done = TRUE],
             fs |-> rm.fs,
             err |-> Join(rm.err, closeErr, Nil),
             ops |-> <<"close", "remove">>]

\* Complete of a file that is neither aborted nor done: sync, close, rename
CompleteOpen(f, fsys, io) ==
    LET syncErr == IF f.closed THEN Nil ELSE FileSync(f, io.sync)
        closeErr == IF f.closed THEN Nil ELSE FileClose(f, io.close)
        ops1 == IF f.closed THEN <<>> ELSE <<"sync", "close">>
        f1 == [f EXCEPT !.open = FALSE, !.closed = TRUE]
    IN IF syncErr # Nil \/ closeErr # Nil
       THEN LET ab == Abort(f1, fsys, io)
            IN [f |-> ab.f, fs |-> ab.fs,
                err |-> Join(syncErr, closeErr, ab.err),
                ops |-> ops1 \o ab.ops]
       ELSE LET mv == Rename(fsys, f1.name, f1.target, io.rename)
            IN IF mv.err # Nil
               THEN [f |-> f1, fs |-> mv.fs, err |-> mv.err,
                     ops |-> ops1 \o <<"rename">>]
               ELSE [f |-> [f1 EXCEPT !.completed = TRUE],
                     fs |-> mv.fs, err |-> Nil,
                     ops |-> ops1 \o <<"rename">>]

\* Complete without the aborted check: a mutant of Complete
CompleteAborted(f, fsys, io) ==
    IF f.done
    THEN [f |-> f, fs |-> fsys, err |-> Nil, ops |-> <<>>]
    ELSE CompleteOpen(f, fsys, io)

\* IncomingFile.Complete
Complete(f, fsys, io) ==
    IF f.aborted
    THEN [f |-> f, fs |-> fsys, err |-> ErrAlreadyAborted, ops |-> <<>>]
    ELSE IF f.done
    THEN [f |-> f, fs |-> fsys, err |-> Nil, ops |-> <<>>]
    ELSE CompleteOpen(f, fsys, io)

\* Close that only closes the descriptor: a mutant of Close
CloseOnly(f, fsys, io) ==
    [f |-> [f EXCEPT !.open = FALSE], fs |-> fsys,
     err |-> FileClose(f, io.close), ops |-> <<"close">>]

\* IncomingFile.Close
Close(f, fsys, io) ==
    IF ~f.completed
    THEN Abort(f, fsys, io)
    ELSE [f |-> [f EXCEPT !.open = FALSE], fs |-> fsys,
          err |-> FileClose(f, io.close), ops |-> <<"close">>]

\* the points at which NewIncomingFile can fail
NewFaults == {"none", "mkdir", "lstat", "createtemp", "stat", "chmod"}

\* NewIncomingFile that opens the target itself instead of a temp file: a
\* mutant of NewIncomingFile
NewIncomingFileInPlace(path, temp, fsys, fault) ==
    IF fault # "none" \/ fsys[path].kind \in {"dir", "other"}
    THEN [f |-> NilFile, fs |-> fsys, err |-> ErrCreate]
    ELSE [f |-> IncomingFile(path, path),
          fs |-> [fsys EXCEPT ![path] = Regular(<<>>, TempPerm)], err |-> Nil]

\* NewIncomingFile(path), with temp the name os.CreateTemp picks
NewIncomingFile(path, temp, fsys, fault) ==
    LET st == fsys[path]
        made == [fsys EXCEPT ![temp] = Regular(<<>>, TempPerm)]
        fail(e, after) == [f |-> NilFile, fs |-> after, err |-> e]
    IN IF fault = "mkdir" THEN fail(ErrMkdir, fsys)
       ELSE IF fault = "lstat" THEN fail(ErrPermission, fsys)
       ELSE IF st.kind = "dir" THEN fail(ErrIsDir, fsys)
       ELSE IF st.kind = "other" THEN fail(ErrNotRegular, fsys)
       ELSE IF fault = "createtemp" THEN fail(ErrCreate, fsys)
       ELSE IF st.kind = "none"
       THEN [f |-> IncomingFile(temp, path), fs |-> made, err |-> Nil]
       ELSE IF fault = "stat" THEN fail(ErrStat, made)
       ELSE IF made[temp].perm # st.perm /\ fault = "chmod"
       THEN fail(ErrChmod, made)
       ELSE [f |-> IncomingFile(temp, path),
             fs |-> [made EXCEPT ![temp].perm = st.perm], err |-> Nil]

(***************************************************************************)
(* Mirror.validateMirrorTarget and the start of Mirror.ServeHTTP.          *)
(***************************************************************************)
Methods == {"GET", "POST"}
\* request paths: the resource, a directory-style path, a relative path
UrlPaths == {"/a.txt", "/a.txt/", "a.txt"}
LstatFaults == {"none", "perm", "io"}

\* validateMirrorTarget that never reports an existing mirror file: a mutant of
\* validateMirrorTarget
validateMirrorTargetNeverExists(filename, fsys, fault) ==
    IF fault = "perm" THEN [exists |-> FALSE, err |-> ErrPermission]
    ELSE IF fault = "io" THEN [exists |-> FALSE, err |-> ErrLstat]
    ELSE IF fsys[filename].kind = "dir" THEN [exists |-> FALSE, err |-> ErrIsDir]
    ELSE IF fsys[filename].kind = "other"
    THEN [exists |-> FALSE, err |-> ErrNotRegular]
    ELSE [exists |-> FALSE, err |-> Nil]

\* Mirror.validateMirrorTarget
validateMirrorTarget(filename, fsys, fault) ==
    IF fault = "perm" THEN [exists |-> FALSE, err |-> ErrPermission]
    ELSE IF fault = "io" THEN [exists |-> FALSE, err |-> ErrLstat]
    ELSE IF fsys[filename].kind = "none" THEN [exists |-> FALSE, err |-> Nil]
    ELSE IF fsys[filename].kind = "dir" THEN [exists |-> FALSE, err |-> ErrIsDir]
    ELSE IF fsys[filename].kind = "other"
    THEN [exists |-> FALSE, err |-> ErrNotRegular]
    ELSE [exists |-> TRUE, err |-> Nil]

\* responseWriterWrapper: the decorated writer of one request
NoWrapper == [wrapped |-> FALSE, file |-> NilFile, etagFile |-> NilFile,
              bytesExpected |-> 0, bytesWritten |-> 0]

\* Mirror.ServeHTTP up to the call of the next handler: "pass" hands the
\* original writer on, "mirror" hands the wrapper on, "error" returns
ServeHTTP(r, method, urlp, suffix, fsys, lstat, nf, ne) ==
    LET pass == [kind |-> "pass", code |-> 0, rww |-> NoWrapper, fs |-> fsys,
                 eerr |-> Nil]
        error(c, after) ==
            [kind |-> "error", code |-> c, rww |-> NoWrapper, fs |-> after,
             eerr |-> Nil]
        v == validateMirrorTarget(Target, fsys, lstat)
        new == NewIncomingFile(Target, TempName(Target, r), fsys, nf)
        enew == NewIncomingFile(Sidecar, TempName(Sidecar, r), new.fs, ne)
    IN IF method # "GET" THEN pass
       ELSE IF urlp = "a.txt" THEN error(400, fsys)
       ELSE IF urlp = "/a.txt/" THEN pass
       ELSE IF v.err # Nil /\ Is(v.err, "ErrIsDir") THEN pass
       ELSE IF v.err # Nil /\ Is(v.err, "ErrPermission") THEN error(403, fsys)
       ELSE IF v.err # Nil /\ ~Is(v.err, "ErrNotExist") THEN error(500, fsys)
       ELSE IF v.exists THEN pass
       ELSE IF new.err # Nil
       THEN error(IF Is(new.err, "ErrPermission") THEN 403 ELSE 500, new.fs)
       ELSE IF suffix = "" \/ enew.err # Nil
       THEN [kind |-> "mirror", code |-> 0,
             rww |-> [NoWrapper EXCEPT !.wrapped = TRUE, !.file = new.f],
             fs |-> IF suffix = "" THEN new.fs ELSE enew.fs,
             eerr |-> IF suffix = "" THEN Nil ELSE enew.err]
       ELSE [kind |-> "mirror", code |-> 0,
             rww |-> [NoWrapper EXCEPT !.wrapped = TRUE, !.file = new.f,
                                       !.etagFile = enew.f],
             fs |-> enew.fs, eerr |-> Nil]

\* the deferred Close calls of ServeHTTP, last registered first
ServeHTTPDefers(w, fsys, io, eio) ==
    LET e == IF w.etagFile = NilFile
             THEN [f |-> NilFile, fs |-> fsys, err |-> Nil, ops |-> <<>>]
             ELSE Close(w.etagFile, fsys, eio)
        c == IF ~w.wrapped
             THEN [f |-> NilFile, fs |-> e.fs, err |-> Nil, ops |-> <<>>]
             ELSE Close(w.file, e.fs, io)
    IN [rww |-> [w EXCEPT !.file = c.f, !.etagFile = e.f], fs |-> c.fs,
        err |-> c.err, eerr |-> e.err]

(***************************************************************************)
(* responseWriterWrapper.WriteHeader and Write.                            *)
(***************************************************************************)
\* Content-Length header values: -1 stands for a missing or unparseable one
Lengths == {-1} \cup (0..MaxBody)
\* Etag header values: none, or a two-byte tag
Etags == {<<>>, <<5, 6>>}
Statuses == {StatusOK, StatusNotFound}

\* responseWriterWrapper.WriteHeader; o is the outcome of the write of the
\* tag to the sidecar temp file, io the faults of Abort
WriteHeader(w, fsys, statusCode, cl, etag, o, io) ==
    IF statusCode = StatusOK
    THEN LET w1 == IF cl >= 0 THEN [w EXCEPT !.bytesExpected = cl] ELSE w
             copy == IF w.etagFile # NilFile /\ etag # <<>>
                     THEN FileWrite(w.etagFile, fsys, etag, o[1], o[2])
                     ELSE [fs |-> fsys, n |-> 0, err |-> Nil]
         IN [rww |-> w1, fs |-> copy.fs, status |-> statusCode,
             err |-> copy.err]
    ELSE LET ab == Abort(w.file, fsys, io)
         IN [rww |-> [w EXCEPT !.file = ab.f], fs |-> ab.fs,
             status |-> statusCode, err |-> ab.err]

\* the real writer's Write: it takes all of data, or fails
RealOutcomes == {"ok", "fail"}
RealWrite(data, ro) ==
    IF ro = "ok" THEN <<Len(data), Nil>> ELSE <<0, ErrPipe>>

\* the deferred function without the Complete of the sidecar: a mutant of
\* WriteDeferred
WriteDeferredSkipsSidecar(w, fsys, written, io, eio) ==
    LET w1 == [w EXCEPT !.bytesWritten = @ + written]
    IN IF w1.bytesExpected > 0 /\ w1.bytesWritten = w1.bytesExpected
       THEN LET c == Complete(w1.file, fsys, io)
            IN [rww |-> [w1 EXCEPT !.file = c.f], fs |-> c.fs,
                fin |-> IF c.err = Nil THEN "ok" ELSE "failed",
                efin |-> "none", err |-> c.err, eerr |-> Nil]
       ELSE [rww |-> w1, fs |-> fsys, fin |-> "none", efin |-> "none",
             err |-> Nil, eerr |-> Nil]

\* the deferred function finalizing as soon as the bytes written reach the
\* expected count, known or not: a mutant of WriteDeferred
WriteDeferredAtLeast(w, fsys, written, io, eio) ==
    LET w1 == [w EXCEPT !.bytesWritten = @ + written]
    IN IF w1.bytesWritten >= w1.bytesExpected
       THEN LET c == Complete(w1.file, fsys, io)
                e == IF c.err = Nil /\ w1.etagFile # NilFile
                     THEN Complete(w1.etagFile, c.fs, eio)
                     ELSE [f |-> w1.etagFile, fs |-> c.fs, err |-> Nil,
                           ops |-> <<>>]
            IN [rww |-> [w1 EXCEPT !.file = c.f, !.etagFile = e.f],
                fs |-> e.fs,
                fin |-> IF c.err = Nil THEN "ok" ELSE "failed",
                efin |-> IF c.err # Nil \/ w1.etagFile = NilFile THEN "none"
                         ELSE IF e.err = Nil THEN "ok" ELSE "failed",
                err |-> c.err, eerr |-> e.err]
       ELSE [rww |-> w1, fs |-> fsys, fin |-> "none", efin |-> "none",
             err |-> Nil, eerr |-> Nil]

\* the deferred function completing the sidecar whatever became of the
\* primary: a mutant of WriteDeferred
WriteDeferredSidecarAlways(w, fsys, written, io, eio) ==
    LET w1 == [w EXCEPT !.bytesWritten = @ + written]
    IN IF w1.bytesExpected > 0 /\ w1.bytesWritten = w1.bytesExpected
       THEN LET c == Complete(w1.file, fsys, io)
                e == IF w1.etagFile # NilFile
                     THEN Complete(w1.etagFile, c.fs, eio)
                     ELSE [f |-> w1.etagFile, fs |-> c.fs, err |-> Nil,
                           ops |-> <<>>]
            IN [rww |-> [w1 EXCEPT !.file = c.f, !.etagFile = e.f],
                fs |-> e.fs,
                fin |-> IF c.err = Nil THEN "ok" ELSE "failed",
                efin |-> IF w1.etagFile = NilFile THEN "none"
                         ELSE IF e.err = Nil THEN "ok" ELSE "failed",
                err |-> c.err, eerr |-> e.err]
       ELSE [rww |-> w1, fs |-> fsys, fin |-> "none", efin |-> "none",
             err |-> Nil, eerr |-> Nil]

\* the deferred function of Write (lines 218-239)
WriteDeferred(w, fsys, written, io, eio) ==
    LET w1 == [w EXCEPT !.bytesWritten = @ + written]
    IN IF w1.bytesExpected > 0 /\ w1.bytesWritten = w1.bytesExpected
       THEN LET c == Complete(w1.file, fsys, io)
                e == IF c.err = Nil /\ w1.etagFile # NilFile
                     THEN Complete(w1.etagFile, c.fs, eio)
                     ELSE [f |-> w1.etagFile, fs |-> c.fs, err |-> Nil,
                           ops |-> <<>>]
            IN [rww |-> [w1 EXCEPT !.file = c.f, !.etagFile = e.f],
                fs |-> e.fs,
                fin |-> IF c.err = Nil THEN "ok" ELSE "failed",
                efin |-> IF c.err # Nil \/ w1.etagFile = NilFile THEN "none"
                         ELSE IF e.err = Nil THEN "ok" ELSE "failed",
                err |-> c.err, eerr |-> e.err]
       ELSE [rww |-> w1, fs |-> fsys, fin |-> "none", efin |-> "none",
             err |-> Nil, eerr |-> Nil]

\* an iteration that hands the slice on even when the write to the temp file
\* failed: a mutant of WriteLoop
WriteLoopForwardsOnError(w, fsys, data, written, o, ro, io, eio) ==
    LET fw == FileWrite(w.file, fsys, SubSeq(data, written + 1, Len(data)),
                        o[1], o[2])
        now == written + fw.n
        fatal == fw.err # Nil /\ ~Is(fw.err, "ErrShortWrite")
        d == WriteDeferred(w, fw.fs, now, io, eio)
        more == [returned |-> FALSE, rww |-> w, fs |-> fw.fs, written |-> now,
                 sent |-> <<>>, real |-> <<0, Nil>>, ret |-> <<0, Nil>>,
                 werr |-> Nil, fin |-> "none", efin |-> "none", err |-> Nil,
                 eerr |-> Nil]
        done == [more EXCEPT !.returned = TRUE, !.rww = d.rww, !.fs = d.fs,
                             !.fin = d.fin, !.efin = d.efin, !.err = d.err,
                             !.eerr = d.eerr]
    IN IF fatal
       THEN [done EXCEPT !.werr = fw.err, !.sent = <<data>>,
                         !.real = RealWrite(data, ro),
                         !.ret = <<now, fw.err>>]
       ELSE IF now = Len(data)
       THEN [done EXCEPT !.sent = <<data>>, !.real = RealWrite(data, ro),
                         !.ret = RealWrite(data, ro)]
       ELSE more

\* an iteration whose Write returns the error of a failed finalize: a mutant
\* of WriteLoop
WriteLoopReturnsFinalizeError(w, fsys, data, written, o, ro, io, eio) ==
    LET fw == FileWrite(w.file, fsys, SubSeq(data, written + 1, Len(data)),
                        o[1], o[2])
        now == written + fw.n
        fatal == fw.err # Nil /\ ~Is(fw.err, "ErrShortWrite")
        d == WriteDeferred(w, fw.fs, now, io, eio)
        more == [returned |-> FALSE, rww |-> w, fs |-> fw.fs, written |-> now,
                 sent |-> <<>>, real |-> <<0, Nil>>, ret |-> <<0, Nil>>,
                 werr |-> Nil, fin |-> "none", efin |-> "none", err |-> Nil,
                 eerr |-> Nil]
        done == [more EXCEPT !.returned = TRUE, !.rww = d.rww, !.fs = d.fs,
                             !.fin = d.fin, !.efin = d.efin, !.err = d.err,
                             !.eerr = d.eerr]
    IN IF fatal
       THEN [done EXCEPT !.werr = fw.err, !.ret = <<now, fw.err>>]
       ELSE IF now = Len(data)
       THEN [done EXCEPT !.sent = <<data>>, !.real = RealWrite(data, ro),
                         !.ret = IF d.err # Nil \/ d.eerr # Nil
                                 THEN <<now, Join(d.err, d.eerr, Nil)>>
                                 ELSE RealWrite(data, ro)]
       ELSE more

\* an iteration that hands the slice on after a short write, before the rest
\* of it is in the temp file: a mutant of WriteLoop
WriteLoopForwardsEarly(w, fsys, data, written, o, ro, io, eio) ==
    LET fw == FileWrite(w.file, fsys, SubSeq(data, written + 1, Len(data)),
                        o[1], o[2])
        now == written + fw.n
        fatal == fw.err # Nil /\ ~Is(fw.err, "ErrShortWrite")
        d == WriteDeferred(w, fw.fs, now, io, eio)
        more == [returned |-> FALSE, rww |-> w, fs |-> fw.fs, written |-> now,
                 sent |-> <<>>, real |-> <<0, Nil>>, ret |-> <<0, Nil>>,
                 werr |-> Nil, fin |-> "none", efin |-> "none", err |-> Nil,
                 eerr |-> Nil]
        done == [more EXCEPT !.returned = TRUE, !.rww = d.rww, !.fs = d.fs,
                             !.fin = d.fin, !.efin = d.efin, !.err = d.err,
                             !.eerr = d.eerr]
    IN IF fatal
       THEN [done EXCEPT !.werr = fw.err, !.ret = <<now, fw.err>>]
       ELSE [done EXCEPT !.sent = <<data>>, !.real = RealWrite(data, ro),
                         !.ret = RealWrite(data, ro)]

\* one iteration of the loop of Write (lines 240-252) on data, of which
\* written bytes are in the temp file already; o is the outcome of the write
\* to the temp file, ro of the real writer.  sent lists the slices handed to
\* the real writer, ret is what Write returns.
WriteLoop(w, fsys, data, written, o, ro, io, eio) ==
    LET fw == FileWrite(w.file, fsys, SubSeq(data, written + 1, Len(data)),
                        o[1], o[2])
        now == written + fw.n
        fatal == fw.err # Nil /\ ~Is(fw.err, "ErrShortWrite")
        d == WriteDeferred(w, fw.fs, now, io, eio)
        more == [returned |-> FALSE, rww |-> w, fs |-> fw.fs, written |-> now,
                 sent |-> <<>>, real |-> <<0, Nil>>, ret |-> <<0, Nil>>,
                 werr |-> Nil, fin |-> "none", efin |-> "none", err |-> Nil,
                 eerr |-> Nil]
        done == [more EXCEPT !.returned = TRUE, !.rww = d.rww, !.fs = d.fs,
                             !.fin = d.fin, !.efin = d.efin, !.err = d.err,
                             !.eerr = d.eerr]
    IN IF fatal
       THEN [done EXCEPT !.werr = fw.err, !.ret = <<now, fw.err>>]
       ELSE IF now = Len(data)
       THEN [done EXCEPT !.sent = <<data>>, !.real = RealWrite(data, ro),
                         !.ret = RealWrite(data, ro)]
       ELSE more

(***************************************************************************)
(* State.                                                                  *)
(***************************************************************************)
VARIABLES
    fs,     \* the file system: path -> entry
    env,    \* "faulty" when the file system and the client connection may fail
            \* in this run, else "reliable"
    pub,    \* the requests whose primary Complete renamed, in order
    mir,    \* the Mirror configuration
    pc,     \* per request: idle, next (the next handler runs), loop (inside
            \* the loop of Write), returned; never for a request that is not made
    rww,    \* per request: the responseWriterWrapper and its IncomingFiles
    lp,     \* per request: data and written of the Write call in progress
    up,     \* per request: what the next handler has produced so far
    out,    \* per request: what has reached the real response writer
    wr,     \* per request: the last Write call and what it returned
    res,    \* per request: how ServeHTTP ended, and the file system it found
    pf,     \* file-level specification: the IncomingFile under test
    call,   \* file-level specification: the last call made on pf
    calls   \* file-level specification: number of calls made

vars == <<fs, env, pub, mir, pc, rww, lp, up, out, wr, res, pf, call, calls>>

reqVars == <<pub, mir, pc, rww, lp, up, out, wr, res>>
fileVars == <<env, pf, call, calls>>

\* the body the next handler of request r produces, byte by byte
Body(r) == [i \in 1..MaxBody |-> 10 * r + i]

NoLoop == [data |-> <<>>, written |-> 0]
NoUp == [hdr |-> "none", status |-> 0, length |-> -1, etag |-> <<>>,
         off |-> 0]
NoOut == [status |-> 0, body |-> <<>>]
NoWrite == [state |-> "none", data |-> <<>>, mirrored |-> FALSE,
            sent |-> <<>>, real |-> <<0, Nil>>, ret |-> <<0, Nil>>,
            werr |-> Nil, fin |-> "none", efin |-> "none", stalled |-> FALSE]
NoRes == [kind |-> "none", method |-> "", urlp |-> "", code |-> 0,
          target |-> Absent, sidecar |-> Absent,
          hdrErr |-> Nil, fin |-> "none", completes |-> 0, kept |-> {},
          wfailed |-> FALSE, faulted |-> FALSE]

NoCall == [op |-> "none", err |-> Nil, ops |-> <<>>, n |-> 0,
           pre |-> NilFile, target |-> Absent, temp |-> Absent]

\* the record of a call of op on pf that returned res
Called(op, r, n) ==
    [op |-> op, err |-> r.err, ops |-> r.ops, n |-> n,
     pre |-> pf, target |-> fs[Target], temp |-> fs[TempName(Target, 1)]]

\* the file systems a run starts from: nothing, or an earlier mirror copy,
\* a directory or a device at the target; nothing or an old file at the sidecar
InitialFs ==
    {[p \in Paths |-> IF p = Target THEN t ELSE IF p = Sidecar THEN e ELSE Absent] :
        t \in {Absent, Regular(OldData, OldPerm), Directory, Irregular},
        e \in {Absent, Regular(OldData, OldPerm)}}

(***************************************************************************)
(* Request-level specification.                                            *)
(***************************************************************************)
\* whether err comes from a failure of the file system
Injected ==
    {e[1] : e \in {ErrMkdir, ErrCreate, ErrStat, ErrChmod, ErrWrite, ErrSync,
                    ErrCloseIO, ErrRename, ErrRemove, ErrLstat, ErrPermission}}
Faulty(err) == \E i \in 1..Len(err) : err[i] \in Injected

\* the temp file of f, when err tells that its removal failed
Kept(f, err) == IF Is(err, ErrRemove[1]) THEN {f.name} ELSE {}

\* the faults a Close or an Abort can meet
CloseFaults ==
    IF env = "faulty" THEN {io \in Faults : ~io.sync /\ ~io.rename}
    ELSE {NoFault}

\* the outcomes of a write of b to a temp file: short writes always, errors
\* in a faulty environment
DiskOutcomes(b) ==
    {o \in WriteOutcomes(b) : env = "faulty" \/ o[2] # "eio"}

RealResults == IF env = "faulty" THEN RealOutcomes ELSE {"ok"}
LstatOutcomes == IF env = "faulty" THEN LstatFaults ELSE {"none"}
NewOutcomes == IF env = "faulty" THEN NewFaults ELSE {"none"}

\* a request with one of the given methods and paths arrives: ServeHTTP runs
\* up to the call of the next handler
ServeOf(r, methods, urlps) ==
    /\ pc[r] = "idle"
    /\ \E method \in methods, urlp \in urlps, lstat \in LstatOutcomes,
          nf \in NewOutcomes, ne \in NewOutcomes :
         \E s \in {ServeHTTP(r, method, urlp, mir.EtagFileSuffix, fs, lstat,
                             nf, ne)} :
            /\ fs' = s.fs
            /\ rww' = [rww EXCEPT ![r] = s.rww]
            /\ pc' = [pc EXCEPT ![r] = IF s.kind = "error" THEN "returned"
                                        ELSE "next"]
            /\ res' = [res EXCEPT ![r] =
                         [NoRes EXCEPT !.kind = s.kind, !.code = s.code,
                                       !.method = method, !.urlp = urlp,
                                       !.target = fs[Target],
                                       !.sidecar = fs[Sidecar],
                                       !.faulted = Faulty(s.eerr)]]
    /\ UNCHANGED <<pub, mir, lp, up, out, wr, fileVars>>

\* any request arrives
Serve(r) == ServeOf(r, Methods, UrlPaths)

\* a GET request for the resource arrives
ServeGet(r) == ServeOf(r, {"GET"}, {"/a.txt"})

\* the inputs that can make a difference to a call: the faults of a step that
\* the call does not reach are left at "no fault"
HeaderFaults(w, statusCode) ==
    IF w.wrapped /\ statusCode # StatusOK THEN CloseFaults ELSE {NoFault}

HeaderOutcomes(w, statusCode, etag) ==
    IF w.wrapped /\ statusCode = StatusOK /\ w.etagFile # NilFile
    THEN DiskOutcomes(etag) ELSE {<<Len(etag), "ok">>}

\* the Etag header is read only by a wrapper that has a sidecar file
HeaderEtags(w) == IF w.etagFile # NilFile THEN Etags ELSE {<<>>}

\* the next handler sets the status and the headers on the writer it was given
Header(r) ==
    /\ pc[r] = "next"
    /\ up[r].hdr = "none"
    /\ \E statusCode \in Statuses, cl \in Lengths,
          etag \in HeaderEtags(rww[r]) :
       \E io \in HeaderFaults(rww[r], statusCode),
          o \in HeaderOutcomes(rww[r], statusCode, etag) :
         \E h \in {IF rww[r].wrapped
                   THEN WriteHeader(rww[r], fs, statusCode, cl, etag, o, io)
                   ELSE [rww |-> rww[r], fs |-> fs, status |-> statusCode,
                         err |-> Nil]} :
            /\ fs' = h.fs
            /\ rww' = [rww EXCEPT ![r] = h.rww]
            /\ up' = [up EXCEPT ![r] = [@ EXCEPT !.hdr = "sent",
                                                 !.status = statusCode,
                                                 !.length = cl,
                                                 !.etag = etag]]
            /\ out' = [out EXCEPT ![r].status = h.status]
            /\ res' = [res EXCEPT ![r].hdrErr = h.err,
                                  ![r].kept = @ \cup Kept(rww[r].file, h.err),
                                  ![r].faulted = @ \/ Faulty(h.err)]
    /\ UNCHANGED <<pub, mir, pc, lp, wr, fileVars>>

\* the bytes the handler may still produce: no more than the declared length
Limit(r) ==
    IF up[r].length >= 0 /\ up[r].length < MaxBody THEN up[r].length
    ELSE MaxBody

\* the next handler calls Write with the next k bytes of its body
WriteCall(r) ==
    /\ pc[r] = "next"
    /\ \E k \in 0..MaxChunk :
         /\ up[r].off + k <= Limit(r)
         /\ LET data == SubSeq(Body(r), up[r].off + 1, up[r].off + k)
            IN IF ~rww[r].wrapped \/ rww[r].file.closed \/ Len(data) = 0
               THEN \E ro \in RealResults :
                      /\ out' = [out EXCEPT ![r].body = @ \o data]
                      /\ wr' = [wr EXCEPT ![r] =
                                  [NoWrite EXCEPT !.state = "returned",
                                                  !.data = data,
                                                  !.sent = <<data>>,
                                                  !.real = RealWrite(data, ro),
                                                  !.ret = RealWrite(data, ro)]]
                      /\ up' = [up EXCEPT ![r].off = @ + k,
                                          ![r].hdr = IF @ = "none"
                                                     THEN "implicit" ELSE @]
                      /\ UNCHANGED <<pc, lp>>
               ELSE /\ pc' = [pc EXCEPT ![r] = "loop"]
                    /\ lp' = [lp EXCEPT ![r] = [data |-> data, written |-> 0]]
                    /\ wr' = [wr EXCEPT ![r] =
                                [NoWrite EXCEPT !.state = "running",
                                                !.data = data,
                                                !.mirrored = TRUE]]
                    /\ up' = [up EXCEPT ![r].hdr = IF @ = "none"
                                                   THEN "implicit" ELSE @]
                    /\ UNCHANGED out
    /\ UNCHANGED <<fs, pub, mir, rww, res, fileVars>>

\* the faults a Complete can meet: a failed sync or close leads to the
\* removal, a clean sync and close to the rename
CompleteFaults ==
    IF env = "faulty"
    THEN {io \in Faults : IF io.sync \/ io.close THEN ~io.rename ELSE ~io.remove}
    ELSE {NoFault}

\* whether the iteration with outcome o ends the Write call, and whether the
\* deferred function then finalizes
Ends(l, o) == o[2] = "eio" \/ l.written + o[1] = Len(l.data)
Finalizes(w, l, o) ==
    /\ Ends(l, o)
    /\ w.bytesExpected > 0
    /\ w.bytesWritten + l.written + o[1] = w.bytesExpected

\* one iteration of the loop of Write; after a failed call the handler goes
\* on with the bytes that were not written, or with the bytes after the slice
WriteStep(r) ==
    /\ pc[r] = "loop"
    /\ \E o \in DiskOutcomes(SubSeq(lp[r].data, lp[r].written + 1,
                                    Len(lp[r].data))) :
       \E ro \in (IF Ends(lp[r], o) /\ o[2] # "eio" THEN RealResults
                  ELSE {"ok"}),
          io \in (IF Finalizes(rww[r], lp[r], o) THEN CompleteFaults
                  ELSE {NoFault}),
          eio \in (IF Finalizes(rww[r], lp[r], o) /\ rww[r].etagFile # NilFile
                   THEN CompleteFaults ELSE {NoFault}),
          resume \in (IF o[2] = "eio" THEN BOOLEAN ELSE {FALSE}) :
         \E s \in {WriteLoop(rww[r], fs, lp[r].data, lp[r].written, o, ro,
                             io, eio)} :
            /\ fs' = s.fs
            /\ rww' = [rww EXCEPT ![r] = s.rww]
            /\ IF s.returned
               THEN /\ pc' = [pc EXCEPT ![r] = "next"]
                    /\ lp' = [lp EXCEPT ![r] = NoLoop]
                    /\ wr' = [wr EXCEPT ![r] =
                                [@ EXCEPT !.state = "returned",
                                          !.sent = s.sent, !.real = s.real,
                                          !.ret = s.ret, !.werr = s.werr,
                                          !.fin = s.fin,
                                          !.efin = s.efin]]
                    /\ out' = [out EXCEPT ![r].body =
                                 IF s.sent = <<>> THEN @ ELSE @ \o s.sent[1]]
                    /\ up' = [up EXCEPT ![r].off =
                                 IF o[2] = "eio" /\ resume THEN @ + s.written
                                 ELSE @ + Len(lp[r].data)]
                    /\ res' = [res EXCEPT
                                 ![r].fin = IF s.fin = "none" THEN @ ELSE s.fin,
                                 ![r].completes = IF s.fin = "none" THEN @
                                                  ELSE @ + 1,
                                 ![r].wfailed = @ \/ s.werr # Nil,
                                 ![r].kept = @ \cup Kept(rww[r].file, s.err)
                                               \cup Kept(rww[r].etagFile, s.eerr),
                                 ![r].faulted = @ \/ o[2] = "eio"
                                                  \/ s.fin = "failed"
                                                  \/ s.efin = "failed"]
                    /\ pub' = IF s.fin = "ok" THEN Append(pub, r) ELSE pub
               ELSE /\ lp' = [lp EXCEPT ![r].written = s.written]
                    /\ wr' = [wr EXCEPT ![r].stalled =
                                @ \/ (o[1] = 0 /\ o[2] = "short")]
                    /\ UNCHANGED <<pc, out, up, res, pub>>
    /\ UNCHANGED <<mir, fileVars>>

\* the next handler returns and the deferred Close calls run
Return(r) ==
    /\ pc[r] = "next"
    /\ \E io \in CloseFaults, eio \in CloseFaults :
         \E d \in {ServeHTTPDefers(rww[r], fs, io, eio)} :
            /\ fs' = d.fs
            /\ rww' = [rww EXCEPT ![r] = d.rww]
            /\ res' = [res EXCEPT
                         ![r].kept = @ \cup Kept(rww[r].file, d.err)
                                       \cup Kept(rww[r].etagFile, d.eerr),
                         ![r].faulted = @ \/ Faulty(d.err) \/ Faulty(d.eerr)]
    /\ pc' = [pc EXCEPT ![r] = "returned"]
    /\ UNCHANGED <<pub, mir, lp, up, out, wr, fileVars>>

InitRequests(active) ==
    /\ pub = <<>>
    /\ pc = [r \in Requests |-> IF r \in active THEN "idle" ELSE "never"]
    /\ rww = [r \in Requests |-> NoWrapper]
    /\ lp = [r \in Requests |-> NoLoop]
    /\ up = [r \in Requests |-> NoUp]
    /\ out = [r \in Requests |-> NoOut]
    /\ wr = [r \in Requests |-> NoWrite]
    /\ res = [r \in Requests |-> NoRes]
    /\ pf = NilFile
    /\ call = NoCall
    /\ calls = 0

\* one request, with or without a sidecar suffix configured
Init ==
    /\ fs \in InitialFs
    /\ env = "faulty"
    /\ mir \in {[EtagFileSuffix |-> ""], [EtagFileSuffix |-> Suffix]}
    /\ InitRequests({1})

Next ==
    \E r \in Requests : Serve(r) \/ Header(r) \/ WriteCall(r) \/ WriteStep(r)
                          \/ Return(r)

Spec == Init /\ [][Next]_vars

NextConc ==
    \E r \in Requests : ServeGet(r) \/ Header(r) \/ WriteCall(r)
                          \/ WriteStep(r) \/ Return(r)

\* two GET requests for the same resource at once, in a reliable environment
InitConc ==
    /\ fs \in {f \in InitialFs : f[Target].kind \in {"none", "file"}
                                  /\ f[Sidecar] = Absent}
    /\ env = "reliable"
    /\ mir = [EtagFileSuffix |-> ""]
    /\ InitRequests(Requests)

SpecConc == InitConc /\ [][NextConc]_vars

(***************************************************************************)
(* File-level specification: any sequence of calls on one IncomingFile.    *)
(***************************************************************************)
InitFile ==
    /\ fs \in {f \in InitialFs : f[Sidecar] = Absent /\ f[Target].kind # "other"}
    /\ env = "faulty"
    /\ pub = <<>>
    /\ mir = [EtagFileSuffix |-> ""]
    /\ pc = [r \in Requests |-> "never"]
    /\ rww = [r \in Requests |-> NoWrapper]
    /\ lp = [r \in Requests |-> NoLoop]
    /\ up = [r \in Requests |-> NoUp]
    /\ out = [r \in Requests |-> NoOut]
    /\ wr = [r \in Requests |-> NoWrite]
    /\ res = [r \in Requests |-> NoRes]
    /\ pf = NilFile
    /\ call = NoCall
    /\ calls = 0

PfNew ==
    /\ pf = NilFile
    /\ fs[TempName(Target, 1)].kind = "none"
    /\ \E fault \in NewFaults :
         LET n == NewIncomingFile(Target, TempName(Target, 1), fs, fault)
         IN /\ pf' = n.f
            /\ fs' = n.fs
            /\ call' = Called("New", [err |-> n.err, ops |-> <<>>], 0)
    /\ UNCHANGED <<calls, env, reqVars>>

PfWrite ==
    /\ pf # NilFile
    /\ calls < MaxCalls
    /\ Len(fs[pf.name].data) < MaxBody
    /\ \E b \in {<<1>>, <<1, 2>>} : \E o \in WriteOutcomes(b) :
         LET w == FileWrite(pf, fs, b, o[1], o[2])
         IN /\ fs' = w.fs
            /\ call' = Called("Write", [err |-> w.err, ops |-> <<"write">>], w.n)
    /\ calls' = calls + 1
    /\ UNCHANGED <<pf, env, reqVars>>

PfComplete ==
    /\ pf # NilFile
    /\ calls < MaxCalls
    /\ \E io \in Faults :
         LET c == Complete(pf, fs, io)
         IN /\ pf' = c.f
            /\ fs' = c.fs
            /\ call' = Called("Complete", c, 0)
    /\ calls' = calls + 1
    /\ UNCHANGED <<env, reqVars>>

PfAbort ==
    /\ pf # NilFile
    /\ calls < MaxCalls
    /\ \E io \in Faults :
         LET c == Abort(pf, fs, io)
         IN /\ pf' = c.f
            /\ fs' = c.fs
            /\ call' = Called("Abort", c, 0)
    /\ calls' = calls + 1
    /\ UNCHANGED <<env, reqVars>>

PfClose ==
    /\ pf # NilFile
    /\ calls < MaxCalls
    /\ \E io \in Faults :
         LET c == Close(pf, fs, io)
         IN /\ pf' = c.f
            /\ fs' = c.fs
            /\ call' = Called("Close", c, 0)
    /\ calls' = calls + 1
    /\ UNCHANGED <<env, reqVars>>

NextFile == PfNew \/ PfWrite \/ PfComplete \/ PfAbort \/ PfClose

SpecFile == InitFile /\ [][NextFile]_vars

(***************************************************************************)
(* Claims about IncomingFile, under SpecFile.                              *)
(***************************************************************************)
\* C7 (as stated): a Complete() on a PendingFile that is already Completed
\* returns success and leaves the target path and the PendingFile unchanged.
C7_SecondCompleteSucceeds ==
    (call.op = "Complete" /\ call.pre.completed)
        => /\ call.err = Nil
           /\ fs[Target] = call.target
           /\ pf = call.pre

\* a second Complete of a Completed file that fails: the temp file it renames
\* was renamed away by the first one
C7_Witness ==
    /\ call.op = "Complete"
    /\ call.pre.completed
    /\ call.ops = <<"rename">>
    /\ call.err = ErrNotExist
    /\ fs[Target] = call.target

\* C8: an Abort() on a PendingFile that is already Aborted (by Abort, by a
\* Complete whose sync or close failed, or by Close) returns success, makes no
\* close and no remove, and leaves the PendingFile Aborted and the files alone.
C8_SecondAbortNoOp ==
    (call.op = "Abort" /\ call.pre.aborted)
        => /\ call.err = Nil
           /\ call.ops = <<>>
           /\ pf = call.pre
           /\ pf.aborted /\ ~pf.completed
           /\ fs[pf.name] = call.temp
           /\ fs[Target] = call.target

\* a second Abort after a first one whose removal failed: the temp file is
\* still there and has not been removed by the second call
C8_Witness ==
    /\ call.op = "Abort"
    /\ call.pre.aborted
    /\ call.err = Nil
    /\ call.temp.kind = "file"
    /\ fs[pf.name].kind = "file"

\* C9: Complete() on an Aborted PendingFile returns the already-aborted error,
\* attempts no rename and leaves the target unchanged; Abort() on a Completed
\* PendingFile returns the already-completed error and leaves the published
\* target in place and the PendingFile Completed.
C9_WrongStateErrors ==
    /\ (call.op = "Complete" /\ call.pre.aborted)
          => /\ call.err = ErrAlreadyAborted
             /\ call.ops = <<>>
             /\ fs[Target] = call.target
             /\ pf = call.pre
    /\ (call.op = "Abort" /\ call.pre.completed)
          => /\ call.err = ErrAlreadyCompleted
             /\ call.ops = <<>>
             /\ fs[Target] = call.target
             /\ fs[Target].kind = "file"
             /\ pf = call.pre
             /\ pf.completed /\ ~pf.aborted

\* an Abort on a Completed file whose written bytes are the published target
C9_Witness ==
    /\ call.op = "Abort"
    /\ call.pre.completed
    /\ call.err = ErrAlreadyCompleted
    /\ fs[Target].kind = "file"
    /\ Len(fs[Target].data) > 0
    /\ fs[Target].data # OldData

\* the call was made on a PendingFile that was Open: not completed, not
\* aborted, its descriptor not closed
OnOpen(op) ==
    /\ call.op = op
    /\ call.pre.open /\ ~call.pre.closed
    /\ ~call.pre.completed /\ ~call.pre.aborted

\* C12 (as stated): when Complete() on an Open PendingFile returns an error,
\* the temp file is gone and the target is what it was before the call; and
\* when sync or close failed the PendingFile is Aborted and the error joins
\* the underlying errors.
C12_FailedCompleteLeavesNoTemp ==
    (OnOpen("Complete") /\ call.err # Nil)
        => /\ fs[call.pre.name] = Absent
           /\ fs[Target] = call.target
           /\ (Is(call.err, ErrSync[1]) \/ Is(call.err, ErrCloseIO[1]))
                => pf.aborted /\ ~pf.completed

\* a Complete whose rename failed, with no removal attempted: the written
\* temp file is still there and the PendingFile is neither Aborted nor done
C12_Witness ==
    /\ OnOpen("Complete")
    /\ call.err = ErrRename
    /\ call.ops = <<"sync", "close", "rename">>
    /\ fs[pf.name].kind = "file"
    /\ Len(fs[pf.name].data) > 0
    /\ ~pf.aborted /\ ~pf.done /\ ~pf.completed
    /\ fs[Target] = call.target

\* whether the call recorded in c attempted a rename
Renamed(c) == \E i \in 1..Len(c.ops) : c.ops[i] = "rename"

\* C13: whatever calls are made and whatever fails, a PendingFile is never
\* both Completed and Aborted; once Completed it stays Completed, never
\* becomes Aborted and its calls leave the target in place; once Aborted it
\* stays Aborted, never becomes Completed, attempts no rename and leaves the
\* target alone.
C13_CompletedAbortedExclusive ==
    /\ [](~(pf.completed /\ pf.aborted))
    /\ [][(pf.completed
              => (/\ pf'.completed /\ ~pf'.aborted
                  /\ fs'[Target] = fs[Target]
                  /\ fs'[Target].kind = "file"))
           /\ (pf.aborted
              => (/\ pf'.aborted /\ ~pf'.completed
                  /\ fs'[Target] = fs[Target]
                  /\ ~Renamed(call')))]_vars

\* a Completed file on which Abort and then Close were called, its written
\* bytes still at the target
C13_Witness ==
    /\ pf.completed /\ ~pf.aborted
    /\ call.op = "Close"
    /\ call.pre.completed
    /\ calls = MaxCalls
    /\ fs[Target].kind = "file"
    /\ fs[Target].data = <<1>>

\* C18 (as stated): when the creation of a PendingFile returns an error, no
\* temp file made by that call remains and the target is unchanged.
C18_FailedCreateLeavesNothing ==
    (call.op = "New" /\ call.err # Nil)
        => /\ pf = NilFile
           /\ fs[TempName(Target, 1)] = Absent
           /\ fs[Target] = call.target

\* a creation over an existing mirror file that failed at the chmod of the
\* temp file: no handle is returned and the empty temp file is still there
C18_Witness ==
    /\ call.op = "New"
    /\ call.err = ErrChmod
    /\ pf = NilFile
    /\ call.target = Regular(OldData, OldPerm)
    /\ call.temp = Absent
    /\ fs[TempName(Target, 1)] = Regular(<<>>, TempPerm)
    /\ fs[Target] = call.target

(***************************************************************************)
(* Claims about one request, under Spec.                                   *)
(***************************************************************************)
\* the request was mirrored and its handler has handed all the bytes of a
\* 200 response with a positive declared length to Write calls that returned
FullBody(r) ==
    /\ res[r].kind = "mirror"
    /\ pc[r] \in {"next", "returned"}
    /\ up[r].hdr = "sent"
    /\ up[r].status = StatusOK
    /\ up[r].length > 0
    /\ up[r].off = up[r].length

NoTemp(r) ==
    /\ fs[TempName(Target, r)] = Absent
    /\ fs[TempName(Sidecar, r)] = Absent

\* C1: for a mirrored request whose 200 response declares its positive body
\* length, with any chunking and any short writes and no file-system failure,
\* once the last Write has returned the target file holds exactly the bytes
\* handed to the client, in order, and no temp file of the request exists.
C1_MirrorEqualsDelivered ==
    \A r \in Requests :
        (FullBody(r) /\ ~res[r].faulted)
            => /\ fs[Target].kind = "file"
               /\ fs[Target].data = out[r].body
               /\ out[r].body = SubSeq(Body(r), 1, up[r].length)
               /\ NoTemp(r)

\* a full body of at least two bytes published while the handler still runs,
\* with a sidecar configured
C1_Witness ==
    /\ FullBody(1) /\ ~res[1].faulted
    /\ pc[1] = "next"
    /\ rww[1].etagFile # NilFile
    /\ Len(out[1].body) >= 2
    /\ fs[Target].data = out[1].body

\* C2 (as stated): after a header with a non-success status, whatever is
\* written, the target is not created or modified by the request, and once
\* ServeHTTP has returned no temp file of the request remains.
C2_NonSuccessLeavesNothing ==
    \A r \in Requests :
        (res[r].kind = "mirror" /\ up[r].hdr = "sent"
                                /\ up[r].status # StatusOK)
            => /\ fs[Target] = res[r].target
               /\ (pc[r] = "returned" => NoTemp(r))

\* a request answered 404 that returned with no removal having failed, and the
\* temp file of a sidecar that NewIncomingFile gave up on is still there
C2_Witness ==
    /\ res[1].kind = "mirror" /\ pc[1] = "returned"
    /\ up[1].hdr = "sent" /\ up[1].status = StatusNotFound
    /\ res[1].kept = {}
    /\ rww[1].etagFile = NilFile
    /\ fs[TempName(Sidecar, 1)].kind = "file"

\* the request ended before any finalize was attempted
EndedBeforeFinalize(r) ==
    /\ res[r].kind = "mirror"
    /\ pc[r] = "returned"
    /\ res[r].fin = "none"

Created(r) == {rww[r].file, rww[r].etagFile} \ {NilFile}

\* C4 (as stated): when the request ends before finalize, every PendingFile
\* it created is Aborted, its temp file is gone and the target is unchanged.
C4_EarlyEndAbortsAll ==
    \A r \in Requests :
        EndedBeforeFinalize(r)
            => /\ \A f \in Created(r) :
                    f.aborted /\ ~f.completed /\ fs[f.name] = Absent
               /\ fs[Target] = res[r].target

\* C4 (amended): when the request ends before finalize, every PendingFile it
\* created is Aborted and the target is unchanged; its temp file is gone
\* unless the removal of that file itself failed.
C4_EarlyEndAbortsAllButKept ==
    \A r \in Requests :
        EndedBeforeFinalize(r)
            => /\ \A f \in Created(r) :
                    /\ f.aborted /\ ~f.completed /\ f.done /\ ~f.open
                    /\ fs[f.name] = Absent \/ f.name \in res[r].kept
               /\ fs[Target] = res[r].target

\* a request with a sidecar that ended after part of a 200 body, both temp
\* files removed
C4_Witness ==
    /\ EndedBeforeFinalize(1)
    /\ up[1].status = StatusOK
    /\ up[1].off > 0 /\ up[1].off < up[1].length
    /\ rww[1].etagFile # NilFile
    /\ rww[1].file.aborted /\ rww[1].etagFile.aborted
    /\ NoTemp(1)

\* C5 (as stated): every Write(data) hands exactly data to the real writer,
\* whatever the outcome of mirroring.
C5_AlwaysForwards ==
    \A r \in Requests :
        wr[r].state = "returned" => wr[r].sent = <<wr[r].data>>

\* C5 (amended): a Write(data) that returns hands exactly data to the real
\* writer, once, unless a write to the temp file failed with an error other
\* than a short write; then nothing is handed on and Write returns the bytes
\* mirrored so far with that error.
C5_ForwardsUnlessMirrorWriteFails ==
    \A r \in Requests :
        wr[r].state = "returned"
            => IF wr[r].werr = Nil
               THEN wr[r].sent = <<wr[r].data>>
               ELSE /\ wr[r].sent = <<>>
                    /\ wr[r].ret[2] = wr[r].werr
                    /\ wr[r].ret[1] < Len(wr[r].data)

\* a Write whose write to the temp file failed after one byte
C5_Witness ==
    /\ wr[1].state = "returned"
    /\ wr[1].werr # Nil
    /\ wr[1].ret[1] = 1
    /\ wr[1].sent = <<>>

\* C6: a failure of finalize (of the primary or of the sidecar) or of the
\* write of the tag to the sidecar changes nothing for the client: the header
\* goes to the real writer with the status given, the slice goes to the real
\* writer as given, and Write returns what the real writer returned.
C6_FinalizeFailureInvisible ==
    \A r \in Requests :
        /\ (wr[r].state = "returned"
              /\ (wr[r].fin = "failed" \/ wr[r].efin = "failed"))
             => /\ wr[r].sent = <<wr[r].data>>
                /\ wr[r].ret = wr[r].real
        /\ (rww[r].wrapped /\ up[r].hdr = "sent")
             => out[r].status = up[r].status

\* a Write after a failed tag write whose sidecar finalize failed while the
\* real writer reported an error of its own
C6_Witness ==
    /\ wr[1].state = "returned"
    /\ wr[1].efin = "failed"
    /\ res[1].hdrErr # Nil
    /\ wr[1].ret = <<0, ErrPipe>>
    /\ wr[1].sent = <<wr[1].data>>
    /\ out[1].status = StatusOK

\* C10 (as stated): with a sidecar temp file created, a 200 response with a
\* non-empty tag and an accurate positive length leaves, once the full body is
\* written, exactly the tag in the file at target + suffix.
C10_SidecarHoldsTag ==
    \A r \in Requests :
        (FullBody(r) /\ rww[r].etagFile # NilFile /\ up[r].etag # <<>>)
            => /\ fs[Sidecar].kind = "file"
               /\ fs[Sidecar].data = up[r].etag

\* a published sidecar that holds the first byte of a two-byte tag, after the
\* write of the tag failed part-way
C10_Witness ==
    /\ FullBody(1)
    /\ up[1].etag = <<5, 6>>
    /\ res[1].hdrErr = ErrWrite
    /\ rww[1].etagFile.completed
    /\ fs[Sidecar] = Regular(<<5>>, TempPerm)

\* ServeHTTP called the next handler for a GET request whose path ends in a
\* separator or whose target was a directory or a regular file
Declined(r) ==
    /\ res[r].kind \in {"pass", "mirror"}
    /\ res[r].method = "GET"
    /\ \/ res[r].urlp = "/a.txt/"
       \/ res[r].target.kind \in {"dir", "file"}

\* C11: when mirroring is declined (path ending in a separator, target an
\* existing directory or regular file) the next handler gets the original
\* writer, no temp file is created, and the target and sidecar paths stay as
\* they were, whatever the upstream response is.
C11_DeclinedLeavesAllAlone ==
    \A r \in Requests :
        Declined(r)
            => /\ res[r].kind = "pass"
               /\ ~rww[r].wrapped
               /\ rww[r] = NoWrapper
               /\ \A t \in Temps : fs[t] = Absent
               /\ fs[Target] = res[r].target
               /\ fs[Sidecar] = res[r].sidecar
               /\ out[r].status = up[r].status
               /\ out[r].body = SubSeq(Body(r), 1, up[r].off)

\* a declined request for an existing mirror file whose 200 response of
\* two body bytes has passed, with the sidecar suffix configured
C11_Witness ==
    /\ Declined(1)
    /\ res[1].target = Regular(OldData, OldPerm)
    /\ mir.EtagFileSuffix = Suffix
    /\ pc[1] = "returned"
    /\ up[1].status = StatusOK
    /\ up[1].length = 2
    /\ Len(out[1].body) = 2

\* a mirrored response whose length the wrapper does not know: a 200 with no
\* parseable or a zero Content-Length
UnknownLength(r) ==
    /\ res[r].kind = "mirror"
    /\ up[r].hdr = "sent"
    /\ up[r].status = StatusOK
    /\ up[r].length <= 0

\* Complete on the primary is called at most once in a request, and only at
\* the end of a Write that brings the bytes written to a known positive
\* expected count; a response of unknown length is never published
CompleteOnceAtFullLength(r) ==
    /\ res[r].completes <= 1
    /\ res[r].completes = 1 <=> res[r].fin # "none"
    /\ (res[r].fin # "none" \/ rww[r].file.completed)
         => /\ res[r].completes = 1
            /\ rww[r].bytesExpected > 0
            /\ rww[r].bytesWritten = rww[r].bytesExpected
            /\ rww[r].file.closed
    /\ wr[r].fin # "none" => wr[r].state = "returned" /\ wr[r].mirrored
    /\ UnknownLength(r)
         => /\ res[r].fin = "none"
            /\ ~rww[r].file.completed
            /\ fs[Target] = res[r].target

\* C14 (as stated): Complete on the primary is called at most once, only at
\* the end of a Write that makes the bytes written equal a known positive
\* expected count; a 200 response of unknown or zero length is never
\* published and its temp file is gone when the request has ended.
C14_UnknownLengthDiscarded ==
    \A r \in Requests :
        /\ CompleteOnceAtFullLength(r)
        /\ (UnknownLength(r) /\ pc[r] = "returned")
             => fs[rww[r].file.name] = Absent

\* C14 (amended): the same, with the temp file of a response of unknown or
\* zero length Aborted when the request has ended, and gone unless its
\* removal failed.
C14_UnknownLengthAborted ==
    \A r \in Requests :
        /\ CompleteOnceAtFullLength(r)
        /\ (UnknownLength(r) /\ pc[r] = "returned")
             => /\ rww[r].file.aborted /\ rww[r].file.done
                /\ \/ fs[rww[r].file.name] = Absent
                   \/ rww[r].file.name \in res[r].kept

\* a 200 response with no Content-Length whose three body bytes were all
\* mirrored and forwarded, ended with the temp file removed and no target
C14_Witness ==
    /\ UnknownLength(1) /\ up[1].length = -1
    /\ pc[1] = "returned"
    /\ rww[1].bytesWritten = MaxBody
    /\ Len(out[1].body) = MaxBody
    /\ rww[1].file.aborted
    /\ fs[rww[1].file.name] = Absent
    /\ fs[Target] = Absent

\* C15 (as stated): once a write to the primary temp file has failed in a body
\* Write, the PendingFile is Aborted and never Completed, and the request
\* publishes nothing at the target.
C15_FailedWriteAborts ==
    \A r \in Requests :
        res[r].wfailed
            => /\ rww[r].file.aborted
               /\ ~rww[r].file.completed
               /\ res[r].fin = "none"
               /\ fs[Target] = res[r].target

\* a request in which a Write failed on the temp file and a later Write was
\* mirrored all the same: the PendingFile was Completed and the target
\* published
C15_Witness ==
    /\ res[1].wfailed
    /\ wr[1].werr = Nil /\ wr[1].mirrored /\ wr[1].fin = "ok"
    /\ rww[1].file.completed /\ ~rww[1].file.aborted
    /\ res[1].target = Absent
    /\ fs[Target].kind = "file"
    /\ fs[Target].data = SubSeq(Body(1), 1, up[1].length)

\* C16 (as stated): once a header with a non-success status has passed the
\* wrapper, the primary and the sidecar PendingFile (when present) are Aborted
\* with their temp files removed, and the header has gone to the real writer
\* with the same status.
C16_NonSuccessAbortsBoth ==
    \A r \in Requests :
        (rww[r].wrapped /\ up[r].hdr = "sent" /\ up[r].status # StatusOK)
            => /\ \A f \in Created(r) : f.aborted /\ fs[f.name] = Absent
               /\ out[r].status = up[r].status

\* a 404 header has been forwarded while the next handler still runs: the
\* primary is Aborted and its temp file removed, the sidecar PendingFile is
\* still open and its temp file is still there
C16_Witness ==
    /\ pc[1] = "next"
    /\ up[1].hdr = "sent" /\ up[1].status = StatusNotFound
    /\ out[1].status = StatusNotFound
    /\ rww[1].file.aborted /\ fs[rww[1].file.name] = Absent
    /\ rww[1].etagFile # NilFile
    /\ rww[1].etagFile.open /\ ~rww[1].etagFile.aborted
    /\ fs[rww[1].etagFile.name].kind = "file"
    /\ res[1].kept = {} /\ ~res[1].faulted

\* C17 (as stated): a write to the temp file that consumes no byte and reports
\* no other error ends the loop of Write with a fatal error: the call has
\* returned, with an error and without handing the slice on.
C17_NoProgressIsFatal ==
    \A r \in Requests :
        wr[r].stalled
            => /\ pc[r] # "loop"
               /\ wr[r].state = "returned"
               /\ wr[r].werr # Nil

\* a Write still inside its loop after an iteration that consumed no byte:
\* nothing written, nothing forwarded, and the next iteration can end in this
\* very state again
C17_Witness ==
    /\ wr[1].stalled
    /\ ENABLED (WriteStep(1) /\ UNCHANGED vars)
    /\ pc[1] = "loop"
    /\ wr[1].state = "running"
    /\ lp[1].written = 0
    /\ Len(lp[1].data) = MaxChunk
    /\ wr[1].sent = <<>>
    /\ ~res[1].faulted

IsPrefix(a, b) == Len(a) <= Len(b) /\ SubSeq(b, 1, Len(a)) = a

\* the primary PendingFile of the request is Open and no write to its temp
\* file has failed
Mirroring(r) ==
    /\ rww[r].wrapped
    /\ rww[r].file.open /\ ~rww[r].file.closed
    /\ ~rww[r].file.completed /\ ~rww[r].file.aborted
    /\ ~res[r].wfailed

\* C19: while the primary PendingFile is Open and no mirror write has failed,
\* the bytes forwarded to the client are a prefix of the bytes in the temp
\* file, which are the chunks in the order they arrived; a chunk is forwarded
\* only once all of it is in the temp file, so between Write calls the two are
\* equal.
C19_ForwardedPrefixOfMirrored ==
    \A r \in Requests :
        Mirroring(r)
            => /\ IsPrefix(out[r].body, fs[rww[r].file.name].data)
               /\ fs[rww[r].file.name].data =
                     SubSeq(Body(r), 1, up[r].off + lp[r].written)
               /\ out[r].body = SubSeq(Body(r), 1, up[r].off)
               /\ pc[r] # "loop" => out[r].body = fs[rww[r].file.name].data

\* inside the loop of the second Write, after a short write: the temp file is
\* one byte ahead of what the client has
C19_Witness ==
    /\ Mirroring(1)
    /\ pc[1] = "loop"
    /\ lp[1].written = 1 /\ Len(lp[1].data) = 2
    /\ Len(out[1].body) = 1
    /\ Len(fs[rww[1].file.name].data) = 2
    /\ out[1].body # fs[rww[1].file.name].data

\* the request has a sidecar PendingFile and its primary was Aborted or failed
\* to Complete
PrimaryLost(r) ==
    /\ rww[r].etagFile # NilFile
    /\ rww[r].file.aborted \/ res[r].fin = "failed"

\* the sidecar is Completed only after the primary was, in this request; when
\* the primary is lost the sidecar is never Completed and the sidecar path is
\* what it was
SidecarFollowsPrimary(r) ==
    /\ rww[r].etagFile.completed
         => /\ rww[r].file.completed
            /\ res[r].fin = "ok"
    /\ fs[Sidecar] # res[r].sidecar => rww[r].etagFile.completed
    /\ PrimaryLost(r)
         => /\ ~rww[r].etagFile.completed
            /\ fs[Sidecar] = res[r].sidecar

\* C20 (as stated): the sidecar is published only after the primary was
\* Completed in the same request; if the primary is Aborted or its Complete
\* fails, the sidecar is never Completed, the sidecar path is unchanged and
\* the sidecar's temp file is gone when the request has ended.
C20_SidecarGoneWithPrimary ==
    \A r \in Requests :
        res[r].kind = "mirror"
            => /\ SidecarFollowsPrimary(r)
               /\ (PrimaryLost(r) /\ pc[r] = "returned")
                    => fs[rww[r].etagFile.name] = Absent

\* C20 (amended): the same, with the sidecar Aborted when the request has
\* ended and its temp file gone unless the removal of that file failed.
C20_SidecarAbortedWithPrimary ==
    \A r \in Requests :
        res[r].kind = "mirror"
            => /\ SidecarFollowsPrimary(r)
               /\ (PrimaryLost(r) /\ pc[r] = "returned")
                    => /\ rww[r].etagFile.aborted /\ rww[r].etagFile.done
                       /\ \/ fs[rww[r].etagFile.name] = Absent
                          \/ rww[r].etagFile.name \in res[r].kept

\* a request over an old sidecar whose tag was written and whose primary
\* failed to Complete: ended with the sidecar Aborted, its temp file removed
\* and the old sidecar in place
C20_Witness ==
    /\ PrimaryLost(1) /\ res[1].fin = "failed"
    /\ pc[1] = "returned"
    /\ up[1].etag # <<>> /\ res[1].hdrErr = Nil
    /\ res[1].sidecar = Regular(OldData, OldPerm)
    /\ fs[Sidecar] = res[1].sidecar
    /\ rww[1].etagFile.aborted
    /\ fs[rww[1].etagFile.name] = Absent

(***************************************************************************)
(* Claims about two concurrent requests, under SpecConc.                   *)
(***************************************************************************)
\* C3: the target is what it was before, or the complete body of a request
\* whose Complete has run, never part of a body; the requests write to
\* distinct temp files; once both have completed, the target holds the body
\* of the request whose Complete ran last.
C3_TargetNeverPartial ==
    /\ \/ fs[Target] \in {Absent, Regular(OldData, OldPerm)}
       \/ \E r \in Requests :
            /\ rww[r].file.completed
            /\ fs[Target].kind = "file"
            /\ up[r].length > 0
            /\ fs[Target].data = SubSeq(Body(r), 1, up[r].length)
    /\ \A r1, r2 \in Requests :
         (r1 # r2 /\ rww[r1].wrapped /\ rww[r2].wrapped)
            => rww[r1].file.name # rww[r2].file.name
    /\ (\A r \in Requests : rww[r].file.completed)
         => /\ Len(pub) = Cardinality(Requests)
            /\ fs[Target].data =
                  SubSeq(Body(pub[Len(pub)]), 1, up[pub[Len(pub)]].length)

\* both requests completed, the first one last
C3_Witness ==
    /\ \A r \in Requests : rww[r].file.completed
    /\ pub = <<2, 1>>
    /\ fs[Target].data = out[1].body
    /\ Len(out[1].body) >= 2
    /\ Len(out[2].body) >= 2

====
